---- MODULE Spec2Model ----
(***************************************************************************)
(* A model of the JSON-RPC 2.0 server of echovl/jsonrpc: the handler       *)
(* registry (Server.HandleFunc / inspectHandler), the envelope codec       *)
(* (readRequest, isValidID, errResponse, writeMessage) and the dispatcher  *)
(* (Server.ServeHTTP / callMethod), and of its client (Client.Call /       *)
(* Notify).                                                                *)
(*                                                                         *)
(* The dispatcher modelled is the one of src/unnamed/part_001 together     *)
(* with the codec it links against: src/unnamed/part_003 (Request with     *)
(* Params *json.RawMessage, readRequest, isValidID, errResponse) and       *)
(* src/unnamed/part_009 (rawMessage, Error and the protocol errors).       *)
(***************************************************************************)
EXTENDS Integers, Sequences, FiniteSets, TLC

\* Numeric request ids are drawn from 0..MaxID.
MaxID == 1
\* Numeric params (and the "number" field of an object) are drawn from 0..MaxNum.
MaxNum == 1

(***************************************************************************)
(* JSON texts.  A JSON value is a record [k, n, s]: k is the JSON type,    *)
(* n the number (or 0/1 for false/true) and s the string.  An object is    *)
(* {"text": s, "number": n} with the zero fields omitted, the shape of     *)
(* the test type Struct; an array stands for any array such as [] or       *)
(* [1,2].  NoJSON stands for a field that is absent from its object.       *)
(***************************************************************************)
NoJSON == [k |-> "absent", n |-> 0, s |-> ""]
JNull == [k |-> "null", n |-> 0, s |-> ""]
JNum(n) == [k |-> "num", n |-> n, s |-> ""]
JStr(s) == [k |-> "str", n |-> 0, s |-> s]
JBool(b) == [k |-> "bool", n |-> IF b THEN 1 ELSE 0, s |-> ""]
JArr == [k |-> "arr", n |-> 0, s |-> ""]
JObj(s, n) == [k |-> "obj", n |-> n, s |-> s]

Strs == {"", "input"}
Nums == 0..MaxNum

\* The JSON values a client may put in "params".
ParamValues ==
    {JNull, JArr} \cup {JNum(n) : n \in Nums} \cup {JStr(s) : s \in Strs}
        \cup {JObj("", 0)} \cup {JObj("input", n) : n \in Nums}

\* The JSON values a client may put in "id".
IDValues == {JNull, JArr, JBool(TRUE), JStr("a")} \cup {JNum(n) : n \in 0..MaxID}

(***************************************************************************)
(* Go types and values.  A type is a sequence of names, a pointer type     *)
(* being "*" followed by its element type.  A value is a record [t, n, s]  *)
(* of its type and its contents (n, s as for JSON); a non-nil pointer      *)
(* carries the contents of what it points to.                              *)
(***************************************************************************)
TInt == <<"int">>
TString == <<"string">>
TBool == <<"bool">>
TFloat64 == <<"float64">>
TStruct == <<"Struct">>
TBadStruct == <<"BadStruct">>
TUnexported == <<"unexported">>
TMap == <<"map[string]interface {}">>
TSlice == <<"[]interface {}">>
TNil == <<"nil">>

PtrTo(t) == <<"*">> \o t

Kind(t) == IF t[1] = "*" THEN "ptr" ELSE t[1]

Elem(t) == Tail(t)

typeOfError == <<"error">>

typeOfContext == <<"context.Context">>

GoVal(t, n, s) == [t |-> t, n |-> n, s |-> s]

\* reflect.Zero / the contents of reflect.New(t)
Zero(t) == GoVal(t, 0, "")

\* The nil interface value.
GoNil == GoVal(TNil, 0, "")

\* token.IsExported(t.Name()): the name starts with an upper-case letter.
IsExportedName(t) == t[1] \in {"Struct", "BadStruct"}

\* t.PkgPath(): empty for the predeclared types.
PkgPath(t) ==
    IF t[1] \in {"int", "string", "bool", "float64", "error"} THEN ""
    ELSE IF t = typeOfContext THEN "context" ELSE "github.com/echovl/jsonrpc"

RECURSIVE isExportedOrBuiltinType(_)
isExportedOrBuiltinType(t) ==
    IF Kind(t) = "ptr" THEN isExportedOrBuiltinType(Elem(t))
    ELSE IsExportedName(t) \/ PkgPath(t) = ""

(***************************************************************************)
(* encoding/json, as far as the server uses it.                            *)
(***************************************************************************)
\* json.Unmarshal(j, p) with p pointing to a zero value of type t:
\* [err, v], v being the value p points to afterwards.
Unmarshal(j, t) ==
    CASE j.k = "null" -> [err |-> FALSE, v |-> Zero(t)]
      [] t = TInt /\ j.k = "num" -> [err |-> FALSE, v |-> GoVal(t, j.n, "")]
      [] t = TString /\ j.k = "str" -> [err |-> FALSE, v |-> GoVal(t, 0, j.s)]
      [] t = TBool /\ j.k = "bool" -> [err |-> FALSE, v |-> GoVal(t, j.n, "")]
      [] t = TStruct /\ j.k = "obj" -> [err |-> FALSE, v |-> GoVal(t, j.n, j.s)]
      [] OTHER -> [err |-> TRUE, v |-> Zero(t)]

\* Decoding into an interface{} field (rawMessage.ID): null and an absent
\* field leave it nil, a number becomes a float64 (exact for every number
\* of the model), and so on.
UnmarshalAny(j) ==
    CASE j.k \in {"absent", "null"} -> GoNil
      [] j.k = "num" -> GoVal(TFloat64, j.n, "")
      [] j.k = "str" -> GoVal(TString, 0, j.s)
      [] j.k = "bool" -> GoVal(TBool, j.n, "")
      [] j.k = "arr" -> GoVal(TSlice, 0, "")
      [] j.k = "obj" -> GoVal(TMap, j.n, j.s)

\* json.Marshal(v): [err, j].  BadStruct.MarshalJSON returns no bytes, which
\* json.Marshal reports as an error.
Marshal(v) ==
    LET t == IF Kind(v.t) = "ptr" THEN Elem(v.t) ELSE v.t
    IN  CASE v.t = TNil -> [err |-> FALSE, j |-> JNull]
          [] t \in {TInt, TFloat64} -> [err |-> FALSE, j |-> JNum(v.n)]
          [] t = TString -> [err |-> FALSE, j |-> JStr(v.s)]
          [] t = TBool -> [err |-> FALSE, j |-> JBool(v.n = 1)]
          [] t \in {TStruct, TMap} -> [err |-> FALSE, j |-> JObj(v.s, v.n)]
          [] t = TSlice -> [err |-> FALSE, j |-> JArr]
          [] OTHER -> [err |-> TRUE, j |-> NoJSON]

(***************************************************************************)
(* Errors (part_009).  A Go error value is a record [kind, code, message,  *)
(* data]: kind "nil" is the nil error, "errorString" a value made by       *)
(* errors.New (compared by identity, which its text stands for) and        *)
(* "Error" the structured jsonrpc.Error.  data is "none" for a nil Data.   *)
(***************************************************************************)
CodeParseError == -32700
CodeInvalidRequest == -32600
CodeMethodNotFound == -32601
CodeInvalidParams == -32602
CodeInternalError == -32603
CodeServerError == -32000

GoError(kind, code, message) ==
    [kind |-> kind, code |-> code, message |-> message, data |-> "none"]

\* Error{code, message, data}: data "none" is nil, "bad" a value that
\* encoding/json cannot encode.
ErrorWithData(code, message, data) ==
    [kind |-> "Error", code |-> code, message |-> message, data |-> data]

NilError == GoError("nil", 0, "")

ErrorParseError == GoError("Error", CodeParseError, "Parse error")
ErrInvalidRequest == GoError("Error", CodeInvalidRequest, "Invalid Request")
ErrMethodNotFound == GoError("Error", CodeMethodNotFound, "Method not found")
ErrInvalidParams == GoError("Error", CodeInvalidParams, "Invalid params")
ErrInternalError == GoError("Error", CodeInternalError, "Internal error")

errInvalidEncodedJSON == GoError("errorString", 0, "invalid encoded json")
errInvalidDecodedMessage == GoError("errorString", 0, "invalid decoded message")
errServerInvalidParams == GoError("errorString", 0, "invalid request params type format")
errServerInvalidOutput == GoError("errorString", 0, "invalid return type format")

(***************************************************************************)
(* The envelope (part_009 rawMessage) and the codec (part_003).            *)
(* A request body is [syntax, jsonrpc, id, method, params]: syntax         *)
(* "garbage" is a body that is no JSON text, "object" a JSON object with   *)
(* the given members (NoJSON: no such member).  Params and Result are      *)
(* *json.RawMessage: NoJSON stands for the nil pointer.                    *)
(***************************************************************************)
RawMessage(version, id, method, params, result, error) ==
    [Version |-> version, ID |-> id, Method |-> method, Params |-> params,
     Result |-> result, Error |-> error]

\* json.NewDecoder(r).Decode(msg) into a zero rawMessage: [err, msg].
\* "jsonrpc" and "method" must be strings (or null, which leaves the field
\* alone); "id" and "params" take any value, null leaving them nil.
DecodeRawMessage(body) ==
    LET bad == \/ body.syntax = "garbage"
               \/ body.jsonrpc.k \notin {"absent", "null", "str"}
               \/ body.method.k \notin {"absent", "null", "str"}
    IN  IF bad
        THEN [err |-> TRUE, msg |-> RawMessage("", GoNil, "", NoJSON, NoJSON, NilError)]
        ELSE [err |-> FALSE,
              msg |-> RawMessage(body.jsonrpc.s, UnmarshalAny(body.id), body.method.s,
                                 IF body.params.k = "null" THEN NoJSON ELSE body.params,
                                 NoJSON, NilError)]

Request(id, method, params) == [ID |-> id, Method |-> method, Params |-> params]

Response(id, result, error) == [ID |-> id, Result |-> result, Error |-> error]

\* reflect.ValueOf(id).Kind() is one of String, Int, Float32.  A decoded
\* number is a float64, whose kind is Float64.
isValidID(id) ==
    IF id = GoNil THEN TRUE
    ELSE Kind(id.t) \in {"string", "int", "float32"}

\* The nil *Request readRequest returns on a decoding error.
NoRequest == Request(GoNil, "<nil>", NoJSON)

\* A readRequest that reports a body it cannot decode as an invalid request.
readRequest_NoParseError(body) ==
    LET d == DecodeRawMessage(body)
        msg == d.msg
    IN  IF d.err \/ msg.Method = "" \/ isValidID(msg.ID)
        THEN [req |-> Request(msg.ID, "", NoJSON), err |-> errInvalidDecodedMessage]
        ELSE [req |-> Request(msg.ID, msg.Method, msg.Params), err |-> NilError]

\* A readRequest that returns an empty Request for an invalid message, as
\* decodeRequest (part_004) did.
readRequest_DropsID(body) ==
    LET d == DecodeRawMessage(body)
        msg == d.msg
    IN  IF d.err THEN [req |-> NoRequest, err |-> errInvalidEncodedJSON]
        ELSE IF msg.Method = "" \/ isValidID(msg.ID)
             THEN [req |-> Request(GoNil, "", NoJSON), err |-> errInvalidDecodedMessage]
             ELSE [req |-> Request(msg.ID, msg.Method, msg.Params), err |-> NilError]

\* A readRequest that takes a message whose version is not "2.0" for an
\* invalid one.
readRequest_ChecksVersion(body) ==
    LET d == DecodeRawMessage(body)
        msg == d.msg
    IN  IF d.err THEN [req |-> NoRequest, err |-> errInvalidEncodedJSON]
        ELSE IF msg.Version # "2.0" \/ msg.Method = "" \/ isValidID(msg.ID)
             THEN [req |-> Request(msg.ID, "", NoJSON), err |-> errInvalidDecodedMessage]
             ELSE [req |-> Request(msg.ID, msg.Method, msg.Params), err |-> NilError]

\* readRequest: [req, err].
readRequest(body) ==
    LET d == DecodeRawMessage(body)
        msg == d.msg
    IN  IF d.err THEN [req |-> NoRequest, err |-> errInvalidEncodedJSON]
        ELSE IF msg.Method = "" \/ isValidID(msg.ID)
             THEN [req |-> Request(msg.ID, "", NoJSON), err |-> errInvalidDecodedMessage]
             ELSE [req |-> Request(msg.ID, msg.Method, msg.Params), err |-> NilError]

errResponse(id, err) == Response(id, NoJSON, err)

\* Response.marshal
marshal(res) == RawMessage("", res.ID, "", NoJSON, res.Result, res.Error)

\* json.NewEncoder(w).Encode(b): the text written, as the members of the
\* JSON object.  "id" has no omitempty and is always written (nil as null);
\* the other members are omitted when empty.  Nothing is written when a
\* member cannot be encoded.
Encode(b) ==
    LET id == Marshal(b.ID)
        bad == id.err \/ (b.Error.kind # "nil" /\ b.Error.data = "bad")
    IN  [err |-> bad,
         text |-> [jsonrpc |-> JStr(b.Version),
                   id |-> id.j,
                   method |-> IF b.Method = "" THEN NoJSON ELSE JStr(b.Method),
                   params |-> b.Params,
                   result |-> b.Result,
                   hasError |-> b.Error.kind # "nil",
                   error |-> [code |-> b.Error.code, message |-> b.Error.message,
                              data |-> b.Error.data]]]

\* A writeMessage that leaves the version as the message has it.
writeMessage_NoVersion(msg) ==
    LET e == Encode(marshal(msg))
    IN  IF e.err THEN <<>> ELSE <<e.text>>

\* writeMessage(w, msg) followed by sendMessage's logging of a failure:
\* the sequence of messages written to w.
writeMessage(msg) ==
    LET b == [marshal(msg) EXCEPT !.Version = "2.0"]
        e == Encode(b)
    IN  IF e.err THEN <<>> ELSE <<e.text>>

sendMessage(rw, msg) == [rw EXCEPT !.msgs = @ \o writeMessage(msg)]

(***************************************************************************)
(* Handlers.  A value passed to HandleFunc is [kind, in, out, body]: its   *)
(* reflect kind, its argument and result types, and what it does when      *)
(* called (the handlers of server_test.go):                                *)
(*   "echo"     returns its parameter and a nil error,                     *)
(*   "const"    returns a fixed non-zero value and a nil error,            *)
(*   "error"    returns errors.New("something went wrong"),                *)
(*   "liberror" returns the structured ErrInternalError,                   *)
(*   "apperror" returns Error{Code: 1, Message: "custom", Data: "details"},*)
(*   "baddata"  returns an Error whose Data cannot be encoded (such as     *)
(*              BadStruct{}).                                              *)
(***************************************************************************)
Func(in, out, body) == [kind |-> "func", in |-> in, out |-> out, body |-> body]

NotAFunc == [kind |-> "string", in |-> <<>>, out |-> <<>>, body |-> "none"]

\* reflect.ValueOf(nil): the zero Value, of kind Invalid.
NilHandler == [kind |-> "invalid", in |-> <<>>, out |-> <<>>, body |-> "none"]

ValidHandlers ==
    { Func(<<typeOfContext>>, <<TString, typeOfError>>, "const"),
      Func(<<typeOfContext>>, <<TStruct, typeOfError>>, "error"),
      Func(<<typeOfContext>>, <<TStruct, typeOfError>>, "liberror"),
      Func(<<typeOfContext>>, <<TStruct, typeOfError>>, "apperror"),
      Func(<<typeOfContext>>, <<TStruct, typeOfError>>, "baddata"),
      Func(<<typeOfContext, TString>>, <<TString, typeOfError>>, "echo"),
      Func(<<typeOfContext, TInt>>, <<TInt, typeOfError>>, "echo"),
      Func(<<typeOfContext, TStruct>>, <<TStruct, typeOfError>>, "echo"),
      Func(<<typeOfContext, PtrTo(TStruct)>>, <<TStruct, typeOfError>>, "echo"),
      Func(<<typeOfContext, TString>>, <<TString, typeOfError>>, "error"),
      Func(<<typeOfContext, TString>>, <<TBadStruct, typeOfError>>, "const") }

InvalidHandlers ==
    { NotAFunc, NilHandler,
      Func(<<>>, <<TString, typeOfError>>, "const"),
      Func(<<typeOfContext, TString, TString>>, <<TString, typeOfError>>, "const"),
      Func(<<TString>>, <<TString, typeOfError>>, "const"),
      Func(<<typeOfContext, TUnexported>>, <<TString, typeOfError>>, "const"),
      Func(<<typeOfContext, TString>>, <<TString, TString, TString>>, "const"),
      Func(<<typeOfContext, TString>>, <<TUnexported, typeOfError>>, "const"),
      Func(<<typeOfContext, TString>>, <<TString, TString>>, "const"),
      \* handlers that break more than one rule
      Func(<<TString, TString, TString>>, <<TString>>, "const"),
      Func(<<TString, TUnexported>>, <<TUnexported, TString, TString>>, "const"),
      Func(<<typeOfContext, TUnexported>>, <<TUnexported, TString>>, "const"),
      Func(<<typeOfContext, TString>>, <<TUnexported, TString>>, "const") }

Handlers == ValidHandlers \cup InvalidHandlers

\* The fixed value a "const" handler returns.
ConstOf(t) ==
    CASE t = TInt -> GoVal(t, 1, "")
      [] t = TString -> GoVal(t, 0, "string")
      [] t = TStruct -> GoVal(t, 1, "text")
      [] OTHER -> Zero(t)

\* htype.f.Call(args): outv, as [out0, out1].
Call(f, arg) ==
    CASE f.body = "echo" -> [out0 |-> GoVal(f.out[1], arg.n, arg.s), out1 |-> NilError]
      [] f.body = "const" -> [out0 |-> ConstOf(f.out[1]), out1 |-> NilError]
      [] f.body = "error" ->
            [out0 |-> Zero(f.out[1]),
             out1 |-> GoError("errorString", 0, "something went wrong")]
      [] f.body = "liberror" -> [out0 |-> Zero(f.out[1]), out1 |-> ErrInternalError]
      [] f.body = "apperror" ->
            [out0 |-> Zero(f.out[1]), out1 |-> ErrorWithData(1, "custom", "details")]
      [] f.body = "baddata" ->
            [out0 |-> Zero(f.out[1]), out1 |-> ErrorWithData(1, "custom", "bad")]

(***************************************************************************)
(* The registry (part_001): Server.handler, a sync.Map from method names   *)
(* to handlerType.                                                         *)
(***************************************************************************)
NoType == <<"<nil>">>

\* A descriptor stored with its callable and arity only, its types not yet
\* filled in.
handlerType_TypesUnset(f, ptype, rtype, numArgs) ==
    [f |-> f, ptype |-> NoType, rtype |-> NoType, numArgs |-> numArgs]

handlerType(f, ptype, rtype, numArgs) ==
    [f |-> f, ptype |-> ptype, rtype |-> rtype, numArgs |-> numArgs]

\* No entry under a method name.
NoHandler == handlerType(NotAFunc, NoType, NoType, 0)

\* inspectHandler: [numArgs, ptype, rtype, err, panic], err "" for nil.  The
\* named results keep what was assigned before an early return.  h.Type()
\* (line 52) is called before the kind is looked at, and panics on the zero
\* reflect.Value that reflect.ValueOf gives for a nil handler.
inspectHandler(h) ==
    LET res(numArgs, ptype, rtype, err) ==
            [numArgs |-> numArgs, ptype |-> ptype, rtype |-> rtype, err |-> err,
             panic |-> FALSE]
        numArgs == Len(h.in)
        ptype == IF numArgs = 2 THEN h.in[2] ELSE NoType
    IN  IF h.kind = "invalid"
        THEN [numArgs |-> 0, ptype |-> NoType, rtype |-> NoType,
              err |-> "reflect: call of reflect.Value.Type on zero Value",
              panic |-> TRUE]
        ELSE IF h.kind # "func"
        THEN res(0, NoType, NoType,
                 "invalid handler type: expected func, got " \o h.kind)
        ELSE IF numArgs # 2 /\ numArgs # 1
        THEN res(numArgs, NoType, NoType,
                 "invalid number of args: expected 2, got " \o ToString(numArgs))
        ELSE IF h.in[1] # typeOfContext
        THEN res(numArgs, NoType, NoType,
                 "invalid first arg type: expected context.Context, got " \o h.in[1][1])
        ELSE IF numArgs = 2 /\ ~isExportedOrBuiltinType(ptype)
        THEN res(numArgs, ptype, NoType,
                 "invalid second arg type: expected exported or builtin")
        ELSE IF Len(h.out) # 2
        THEN res(numArgs, ptype, NoType,
                 "invalid number of returns: expected 2, got " \o ToString(Len(h.out)))
        ELSE IF ~isExportedOrBuiltinType(h.out[1])
        THEN res(numArgs, ptype, h.out[1],
                 "invalid first return type: expected exported or builtin")
        ELSE IF h.out[2] # typeOfError
        THEN res(numArgs, ptype, h.out[1],
                 "invalid second return type: expected error, got " \o h.out[2][1])
        ELSE res(numArgs, ptype, h.out[1], "")

(***************************************************************************)
(* reflect.Value: [typ, ptr, flag], the type descriptor, the address of    *)
(* the data and the flag word (the kind, and whether the value is held     *)
(* indirectly and is addressable).                                         *)
(***************************************************************************)
\* reflect.New(t), the new zero value living at address a
reflectNew(t, a) == [typ |-> PtrTo(t), ptr |-> a, flag |-> <<"ptr">>]

\* v.Elem() of a pointer value
ValueElem(v) ==
    [typ |-> Elem(v.typ), ptr |-> v.ptr, flag |-> <<Kind(Elem(v.typ)), "indir", "addr">>]

\* reflect.DeepEqual(x, y) of two reflect.Value structs: it compares the
\* structs themselves, field by field (the type descriptors deeply, the
\* data pointers and the flags), not the values they refer to.
DeepEqual(x, y) == x.typ = y.typ /\ x.ptr = y.ptr /\ x.flag = y.flag

(***************************************************************************)
(* The dispatcher (part_001).                                              *)
(***************************************************************************)
\* A callMethod that reports a plain handler error as an unencodable result.
callReturn_PlainAsOutput(outv, calls) ==
    LET ret(result, err) == [result |-> result, err |-> err, calls |-> calls]
        outErr == outv.out1
        m == Marshal(outv.out0)
    IN  IF outErr.kind = "Error" THEN ret(NoJSON, outErr)
        ELSE IF outErr.kind # "nil" \/ m.err THEN ret(NoJSON, errServerInvalidOutput)
        ELSE ret(m.j, NilError)

\* A callMethod that wraps every error the handler returns, structured or
\* not, with code -32000.
callReturn_WrapsAll(outv, calls) ==
    LET ret(result, err) == [result |-> result, err |-> err, calls |-> calls]
        outErr == outv.out1
        m == Marshal(outv.out0)
    IN  IF outErr.kind # "nil"
        THEN ret(NoJSON, GoError("Error", CodeServerError, outErr.message))
        ELSE IF m.err THEN ret(NoJSON, errServerInvalidOutput)
        ELSE ret(m.j, NilError)

\* A callMethod that ignores the error of json.Marshal.
callReturn_IgnoresMarshalError(outv, calls) ==
    LET ret(result, err) == [result |-> result, err |-> err, calls |-> calls]
        outErr == outv.out1
        m == Marshal(outv.out0)
    IN  IF outErr.kind = "Error" THEN ret(NoJSON, outErr)
        ELSE IF outErr.kind # "nil"
        THEN ret(NoJSON, GoError("Error", CodeServerError, outErr.message))
        ELSE ret(m.j, NilError)

\* callMethod, lines 181-195: the handler has returned outv.  A structured
\* Error is returned as it is, any other error wrapped with code -32000,
\* and otherwise the first result is encoded.
callReturn(outv, calls) ==
    LET ret(result, err) == [result |-> result, err |-> err, calls |-> calls]
        outErr == outv.out1
        m == Marshal(outv.out0)
    IN  IF outErr.kind = "Error" THEN ret(NoJSON, outErr)
        ELSE IF outErr.kind # "nil"
        THEN ret(NoJSON, GoError("Error", CodeServerError, outErr.message))
        ELSE IF m.err THEN ret(NoJSON, errServerInvalidOutput)
        ELSE ret(m.j, NilError)

\* callMethod: [result, err, calls], calls being the invocations of the
\* handler it made, each [f, arg] (arg GoNil for a handler without a
\* parameter).
callMethod(req, htype) ==
    IF htype.numArgs = 1
    THEN callReturn(Call(htype.f, GoNil), <<[f |-> htype.f, arg |-> GoNil]>>)
    ELSE LET pIsValue == Kind(htype.ptype) # "ptr"
             etype == IF pIsValue THEN htype.ptype ELSE Elem(htype.ptype)
             pvalue == reflectNew(etype, 1)
             pzero == reflectNew(etype, 2)
             u == Unmarshal(req.Params, etype)
             \* the argument: pvalue.Elem() for a value, pvalue for a pointer
             arg == GoVal(htype.ptype, u.v.n, u.v.s)
             invalid == [result |-> NoJSON, err |-> errServerInvalidParams, calls |-> <<>>]
         IN  IF req.Params = NoJSON THEN invalid
             ELSE IF u.err \/ DeepEqual(pzero, ValueElem(pvalue)) THEN invalid
             ELSE callReturn(Call(htype.f, arg), <<[f |-> htype.f, arg |-> arg]>>)

StatusNotFound == 404

\* A fresh http.ResponseWriter: nothing written, status 200 unless set.
NewRecorder == [status |-> 200, text |-> "", msgs |-> <<>>]

\* s.handler.Load(method): the descriptor, NoHandler when ok is false.
Load(reg, method) == IF method \in DOMAIN reg THEN reg[method] ELSE NoHandler

\* ServeHTTP, lines 103-140: the request is a POST.  [rw, calls].
ServePOST(reg, r) ==
    LET rw == NewRecorder
        out(w, calls) == [rw |-> w, calls |-> calls]
        rr == readRequest(r.body)
        req == rr.req
        htype == Load(reg, req.Method)
        cm == callMethod(req, htype)
    IN  IF rr.err = errInvalidEncodedJSON
        THEN out(sendMessage(rw, errResponse(GoNil, ErrorParseError)), <<>>)
        ELSE IF rr.err = errInvalidDecodedMessage
        THEN out(sendMessage(rw, errResponse(req.ID, ErrInvalidRequest)), <<>>)
        ELSE IF htype = NoHandler
        THEN out(sendMessage(rw, errResponse(req.ID, ErrMethodNotFound)), <<>>)
        ELSE IF cm.err = errServerInvalidParams
        THEN out(sendMessage(rw, errResponse(req.ID, ErrInvalidParams)), cm.calls)
        ELSE IF cm.err = errServerInvalidOutput
        THEN out(sendMessage(rw, errResponse(req.ID, ErrInternalError)), cm.calls)
        ELSE IF cm.err.kind = "Error"
        THEN out(sendMessage(rw, errResponse(req.ID, cm.err)), cm.calls)
        ELSE out(sendMessage(rw, Response(req.ID, cm.result, NilError)), cm.calls)

\* A ServeHTTP that serves every HTTP method.
Serve_AnyMethod(reg, r) == ServePOST(reg, r)

\* ServeHTTP(rw, r) against the registry reg: [rw, calls].
Serve(reg, r) ==
    IF r.method # "POST"
    THEN [rw |-> [NewRecorder EXCEPT !.status = StatusNotFound, !.text = "Not found"],
          calls |-> <<>>]
    ELSE ServePOST(reg, r)

(***************************************************************************)
(* The state machine.                                                      *)
(***************************************************************************)
\* The method names handlers are registered under; a request may also name
\* "h", under which nothing is ever registered.
Methods == {"f", "g"}

Body(syntax, jsonrpc, id, method, params) ==
    [syntax |-> syntax, jsonrpc |-> jsonrpc, id |-> id, method |-> method,
     params |-> params]

Garbage == Body("garbage", NoJSON, NoJSON, NoJSON, NoJSON)

Bodies ==
    {Garbage} \cup
    { Body("object", v, id, m, p) :
        v \in {NoJSON, JStr("2.0")},
        id \in {NoJSON} \cup IDValues,
        m \in {NoJSON, JNum(1), JStr("h")} \cup {JStr(x) : x \in Methods},
        p \in {NoJSON} \cup ParamValues } \cup
    \* some requests that carry another version tag
    { Body("object", JStr("1.0"), id, m, p) :
        id \in {JNum(0), JStr("a")},
        m \in {JStr("f"), JStr("h")},
        p \in {NoJSON, JNum(1), JStr("input")} }

HTTPRequests ==
    [method : {"POST"}, body : Bodies] \cup
    [method : {"GET"},
     body : {Garbage, Body("object", JStr("2.0"), JNum(1), JStr("f"), JStr("input"))}]

NoHTTPRequest == [method |-> "", body |-> Garbage]

VARIABLES
    handler,    \* Server.handler: method name -> handlerType (NoHandler: no entry)
    r,          \* the HTTP request being served, NoHTTPRequest when there is none
    rw,         \* what ServeHTTP wrote for r: [status, text, msgs]
    calls,      \* the handler invocations made for r
    served,     \* whether ServeHTTP has returned for r
    ret         \* the HandleFunc call that has just ended and how it ended:
                \* [method, h, err, panic], the error it returned or the
                \* value it panicked with; NoCall once its caller has gone on

\* Goroutines that use the server concurrently, as in TestServeAsync.
VARIABLES
    registrars, \* per registering goroutine: [pc, method, h], a HandleFunc call
    dispatches, \* per serving goroutine: [pc, r, afterAll, htype, rw, calls],
                \* a ServeHTTP call
    stores      \* the goroutines whose Store was executed, in that order

\* A client (part_006) whose Call and Notify are used by several goroutines.
VARIABLES
    next,        \* Client.next, the counter the request ids are drawn from
    invocations  \* per calling goroutine: its Call or Notify and the worker
                 \* goroutine that invocation started

svars == <<r, rw, calls, served, ret>>
avars == <<registrars, dispatches, stores>>
cvars == <<next, invocations>>
vars ==
    <<handler, r, rw, calls, served, ret, registrars, dispatches, stores,
      next, invocations>>

Registrars == {"r1", "r2"}
Dispatchers == {"d1", "d2"}

IdleRegistrar == [pc |-> "idle", method |-> "", h |-> NotAFunc]
IdleDispatch ==
    [pc |-> "idle", r |-> NoHTTPRequest, afterAll |-> FALSE, htype |-> NoHandler,
     rw |-> NewRecorder, calls |-> <<>>]

NoCall == [method |-> "", h |-> NotAFunc, err |-> "", panic |-> FALSE]

(***************************************************************************)
(* The client: Client.Call / Notify of src/unnamed/part_006 with the codec *)
(* it links against, src/unnamed/part_005 (request, Response,              *)
(* decodeResponseFromReader).  An error the client returns is a record     *)
(* [op, cause] for the text "jsonrpc: <op>: <cause>" ("jsonrpc: <cause>"   *)
(* when op is empty); NoErr is the nil error.                              *)
(***************************************************************************)
TInt64 == <<"int64">>

NoErr == [op |-> "nil", cause |-> ""]
Errorf(op, cause) == [op |-> op, cause |-> cause]

\* ctx.Err() once the deadline of ctx has passed.
DeadlineExceeded == "context deadline exceeded"

\* What httpClient.Do reports when the peer cannot be reached.
ConnectionReset == "connection reset by peer"

\* request{ID, Method, Params}: ID is an interface{}, GoNil when unset.
request(id, method, params) == [ID |-> id, Method |-> method, Params |-> params]

\* request.bytes(): the JSON text of the request.  "id" has omitempty: a
\* nil ID leaves the member out; an int64 is written as a number.
bytes(req) ==
    [syntax |-> "object",
     jsonrpc |-> JStr("2.0"),
     id |-> IF req.ID = GoNil THEN NoJSON ELSE JNum(req.ID.n),
     method |-> JStr(req.Method),
     params |-> req.Params]

NoBytes ==
    [syntax |-> "none", jsonrpc |-> NoJSON, id |-> NoJSON, method |-> NoJSON,
     params |-> NoJSON]

\* Client.nextID, atomic.AddInt64(&c.next, 1): [next, id], the counter
\* after the call and the id returned (src/client.go returns the same
\* number as its decimal text).
nextID_Reuses(n) == [next |-> n, id |-> GoVal(TInt64, n, "")]

nextID(n) == [next |-> n + 1, id |-> GoVal(TInt64, n + 1, "")]

\* The request notify builds (line 64): no id.
notifyRequest_WithID(method, p) == request(GoVal(TInt64, 0, ""), method, p)

notifyRequest(method, p) == request(GoNil, method, p)

\* A reply body: [syntax, id, method, result, error].  syntax "garbage" is
\* a body that is no JSON text; error is NilError when the object has no
\* "error" member.
Reply(id, method, result, error) ==
    [syntax |-> "object", id |-> id, method |-> method, result |-> result,
     error |-> error]

GarbageReply == [Reply(NoJSON, "", NoJSON, NilError) EXCEPT !.syntax = "garbage"]

NoReply == [Reply(NoJSON, "", NoJSON, NilError) EXCEPT !.syntax = "none"]

\* What a peer may answer, whatever it was asked: a result or an error
\* under either id, an object with neither, an object that has a "method"
\* member, a body that is no JSON.
Replies ==
    { GarbageReply,
      Reply(JNum(1), "", NoJSON, NilError),
      Reply(JNum(1), "", JStr("string"), NilError),
      Reply(JNum(2), "", JStr("string"), NilError),
      Reply(JNum(1), "", NoJSON, ErrorWithData(CodeMethodNotFound, "Method not found", "none")),
      Reply(JNum(2), "", NoJSON, ErrorWithData(CodeServerError, "Server error", "details")),
      Reply(JNum(1), "f", NoJSON, ErrorWithData(CodeInvalidParams, "Invalid params", "none")) }

\* Response{id, result, error}; &Response{} is ZeroResponse.
ClientResponse(id, result, error) == [id |-> id, result |-> result, error |-> error]

ZeroResponse == ClientResponse(GoNil, NoJSON, NilError)

\* decodeResponseFromReader(r, resp): [err, resp].  json.Marshal of the raw
\* result gives null when the reply has no "result".
decodeResponseFromReader_DropsError(body, resp) ==
    IF body.syntax = "garbage" THEN [err |-> errInvalidEncodedJSON, resp |-> resp]
    ELSE IF body.method # ""
         THEN [err |-> errInvalidDecodedMessage,
               resp |-> [resp EXCEPT !.id = UnmarshalAny(body.id)]]
         ELSE [err |-> NilError,
               resp |-> ClientResponse(UnmarshalAny(body.id),
                                       IF body.result = NoJSON THEN JNull ELSE body.result,
                                       NilError)]

decodeResponseFromReader(body, resp) ==
    IF body.syntax = "garbage" THEN [err |-> errInvalidEncodedJSON, resp |-> resp]
    ELSE IF body.method # ""
         THEN [err |-> errInvalidDecodedMessage,
               resp |-> [resp EXCEPT !.id = UnmarshalAny(body.id)]]
         ELSE [err |-> NilError,
               resp |-> ClientResponse(UnmarshalAny(body.id),
                                       IF body.result = NoJSON THEN JNull ELSE body.result,
                                       body.error)]

\* Response.Err()
Err(resp) == resp.error

\* Response.Decode(v), v a pointer to the value target: [err, v], v being
\* the target afterwards.
Decode(resp, target) ==
    IF Err(resp) # NilError THEN [err |-> Err(resp), v |-> target]
    ELSE LET u == Unmarshal(resp.result, target.t)
         IN  IF u.err
             THEN [err |-> GoError("UnmarshalTypeError", 0, "json: cannot unmarshal"),
                   v |-> target]
             ELSE [err |-> NilError, v |-> u.v]

\* The goroutines that use the client, and what they pass as params: an
\* int, or a value that encoding/json cannot encode.
Callers == {"c1", "c2"}
ClientParams == {GoVal(TInt, 1, ""), GoVal(TBadStruct, 0, "")}

\* An invocation: pc is where the caller is ("idle", "select", "returned"),
\* kind "Call", "Notify" or "CallReply" (the Call of src/client.go, which
\* takes a reply target), ctxDone whether ctx.Done() is closed, w where
\* the worker goroutine is ("none", "start", "send", "inflight", "decode",
\* "unmarshal", "report", "exit"), req the request it built, sent the
\* bytes it put on the wire, body the reply the transport handed it, resp
\* the Response it shares with the caller, answer the reply the peer gave
\* to its request, werr what it sends on done, out what the caller got
\* back: [nilResp, resp, err, by], the *Response (nilResp: a nil pointer),
\* the error and the case of the select that fired.  reply is what the
\* caller's reply target holds.
\* expired: ctx.Done() was closed before the invocation; handedLive: the
\* transport handed the reply over while ctx was live; failed: the
\* transport could not reach the peer; late: the worker wrote to the reply
\* target after the caller had returned.
NoOutcome == [nilResp |-> TRUE, resp |-> ZeroResponse, err |-> NoErr, by |-> "none"]

IdleInvocation ==
    [pc |-> "idle", kind |-> "", params |-> GoNil, ctxDone |-> FALSE,
     expired |-> FALSE, w |-> "none", req |-> request(GoNil, "", NoJSON),
     sent |-> NoBytes, body |-> NoReply, answer |-> NoReply,
     resp |-> ZeroResponse, werr |-> NoErr,
     handedLive |-> FALSE, failed |-> FALSE, out |-> NoOutcome,
     reply |-> GoVal(TString, 0, ""), late |-> FALSE]

Init ==
    /\ handler = [m \in Methods |-> NoHandler]
    /\ r = NoHTTPRequest
    /\ rw = NewRecorder
    /\ calls = <<>>
    /\ served = FALSE
    /\ ret = NoCall
    /\ registrars = [g \in Registrars |-> IdleRegistrar]
    /\ dispatches = [d \in Dispatchers |-> IdleDispatch]
    /\ stores = <<>>
    /\ next = 0
    /\ invocations = [c \in Callers |-> IdleInvocation]

\* A Store that keeps the entry a method already has (LoadOrStore).
Store_KeepsFirst(reg, method, htype) ==
    IF reg[method] # NoHandler THEN reg ELSE [reg EXCEPT ![method] = htype]

\* s.handler.Store(method, htype)
Store(reg, method, htype) == [reg EXCEPT ![method] = htype]

\* A HandleFunc that stores the descriptor before it looks at the error of
\* inspectHandler.
HandleFunc_StoresAnyway(method, h) ==
    LET i == inspectHandler(h)
    IN  /\ r = NoHTTPRequest
        /\ ret = NoCall
        /\ handler' = Store(handler, method,
                            handlerType(h, i.ptype, i.rtype, i.numArgs))
        /\ ret' = [method |-> method, h |-> h,
                   err |-> IF i.panic THEN i.err
                           ELSE IF i.err # "" THEN "jsonrpc: " \o i.err ELSE "",
                   panic |-> i.panic]
        /\ UNCHANGED <<r, rw, calls, served>>
        /\ UNCHANGED <<avars, cvars>>

\* Server.HandleFunc(method, h).  ServeHTTP reads the registry once, by a
\* single s.handler.Load, and sync.Map orders a concurrent Store before or
\* after it: registrations are taken between exchanges.
HandleFunc(method, h) ==
    LET i == inspectHandler(h)
    IN  /\ r = NoHTTPRequest
        /\ ret = NoCall
        /\ handler' = IF i.err # "" THEN handler
                      ELSE Store(handler, method,
                                 handlerType(h, i.ptype, i.rtype, i.numArgs))
        /\ ret' = [method |-> method, h |-> h,
                   err |-> IF i.panic THEN i.err
                           ELSE IF i.err # "" THEN "jsonrpc: " \o i.err ELSE "",
                   panic |-> i.panic]
        /\ UNCHANGED <<r, rw, calls, served>>
        /\ UNCHANGED <<avars, cvars>>

\* The caller of HandleFunc has taken what the call returned and goes on.
Resume ==
    /\ ret # NoCall
    /\ ret' = NoCall
    /\ UNCHANGED <<handler, r, rw, calls, served>>
    /\ UNCHANGED <<avars, cvars>>

\* The transport hands a request to the server (net/http, or the tests'
\* httptest.NewRequest and NewRecorder).
Accept(req) ==
    /\ r = NoHTTPRequest
    /\ ret = NoCall
    /\ r' = req
    /\ rw' = NewRecorder
    /\ calls' = <<>>
    /\ served' = FALSE
    /\ ret' = NoCall
    /\ UNCHANGED handler
    /\ UNCHANGED <<avars, cvars>>

\* A ServeHTTP that takes the descriptor out of the registry when it looks
\* it up (LoadAndDelete).
ServeHTTP_LoadAndDelete ==
    /\ r # NoHTTPRequest
    /\ ~served
    /\ LET s == Serve(handler, r)
       IN  /\ rw' = s.rw
           /\ calls' = s.calls
    /\ handler' = [m \in Methods |->
                     IF r.body.method = JStr(m) THEN NoHandler ELSE handler[m]]
    /\ served' = TRUE
    /\ UNCHANGED <<r, ret>>
    /\ UNCHANGED <<avars, cvars>>

\* Server.ServeHTTP(rw, r)
ServeHTTP ==
    /\ r # NoHTTPRequest
    /\ ~served
    /\ LET s == Serve(handler, r)
       IN  /\ rw' = s.rw
           /\ calls' = s.calls
    /\ served' = TRUE
    /\ UNCHANGED <<handler, r, ret>>
    /\ UNCHANGED <<avars, cvars>>

\* The exchange is over: the transport sends what was written and the
\* request is dropped.
Finish ==
    /\ served
    /\ r' = NoHTTPRequest
    /\ rw' = NewRecorder
    /\ calls' = <<>>
    /\ served' = FALSE
    /\ UNCHANGED <<handler, ret>>
    /\ UNCHANGED <<avars, cvars>>

Next ==
    \/ \E method \in Methods, h \in Handlers : HandleFunc(method, h)
    \/ Resume
    \/ \E req \in HTTPRequests : Accept(req)
    \/ ServeHTTP
    \/ Finish

Spec == Init /\ [][Next]_vars

(***************************************************************************)
(* Concurrent use.  Each goroutine makes one call; its steps are split     *)
(* where it touches the registry, the one thing the calls share: Store in  *)
(* HandleFunc (line 47) and Load in ServeHTTP (line 115).                  *)
(***************************************************************************)
\* The handlers the goroutines register.
AsyncHandlers ==
    { Func(<<typeOfContext>>, <<TString, typeOfError>>, "const"),
      Func(<<typeOfContext, TInt>>, <<TInt, typeOfError>>, "echo") }

\* The requests the goroutines send.
AsyncRequests ==
    [method : {"POST"},
     body : { Body("object", JStr("2.0"), id, JStr(m), JNum(1)) :
                id \in {JStr("a")} \cup {JNum(n) : n \in 0..MaxID}, m \in Methods }]

\* HandleFunc, lines 42-46: the handler is inspected; the call returns when
\* it is rejected.
GoHandleFunc(g, method, h) ==
    /\ registrars[g].pc = "idle"
    /\ registrars' = [registrars EXCEPT ![g] =
            [pc |-> IF inspectHandler(h).err # "" THEN "done" ELSE "store",
             method |-> method, h |-> h]]
    /\ UNCHANGED <<handler, dispatches, stores>>
    /\ UNCHANGED <<svars, cvars>>

\* HandleFunc, lines 47-48: the descriptor is stored and the call returns.
GoStore(g) ==
    LET c == registrars[g]
        i == inspectHandler(c.h)
    IN  /\ c.pc = "store"
        /\ handler' = Store(handler, c.method,
                            handlerType(c.h, i.ptype, i.rtype, i.numArgs))
        /\ stores' = Append(stores, g)
        /\ registrars' = [registrars EXCEPT ![g].pc = "done"]
        /\ UNCHANGED dispatches
        /\ UNCHANGED <<svars, cvars>>

\* ServeHTTP is called with req.  afterAll: every registering goroutine had
\* returned by then.
GoServe(d, req) ==
    /\ dispatches[d].pc = "idle"
    /\ dispatches' = [dispatches EXCEPT ![d] =
            [IdleDispatch EXCEPT
                !.pc = "started", !.r = req,
                !.afterAll = \A g \in Registrars : registrars[g].pc = "done"]]
    /\ UNCHANGED <<handler, registrars, stores>>
    /\ UNCHANGED <<svars, cvars>>

\* ServeHTTP, lines 97-115: up to the lookup of the method.
GoLoad(d) ==
    LET c == dispatches[d]
    IN  /\ c.pc = "started"
        /\ dispatches' = [dispatches EXCEPT
                ![d].pc = "loaded",
                ![d].htype = Load(handler, readRequest(c.r.body).req.Method)]
        /\ UNCHANGED <<handler, registrars, stores>>
        /\ UNCHANGED <<svars, cvars>>

\* ServeHTTP, lines 116-140: the rest, with the descriptor that was loaded.
GoRespond(d) ==
    LET c == dispatches[d]
        method == readRequest(c.r.body).req.Method
        s == Serve([m \in {method} |-> c.htype], c.r)
    IN  /\ c.pc = "loaded"
        /\ dispatches' = [dispatches EXCEPT
                ![d].pc = "done", ![d].rw = s.rw, ![d].calls = s.calls]
        /\ UNCHANGED <<handler, registrars, stores>>
        /\ UNCHANGED <<svars, cvars>>

NextAsync ==
    \/ \E g \in Registrars, method \in Methods, h \in AsyncHandlers :
            GoHandleFunc(g, method, h)
    \/ \E g \in Registrars : GoStore(g)
    \/ \E d \in Dispatchers, req \in AsyncRequests : GoServe(d, req)
    \/ \E d \in Dispatchers : GoLoad(d)
    \/ \E d \in Dispatchers : GoRespond(d)

SpecAsync == Init /\ [][NextAsync]_vars

(***************************************************************************)
(* The client in use.  Each goroutine makes one Call or Notify; the        *)
(* invocation starts a worker goroutine and waits in a select for ctx or   *)
(* for the worker.  The worker's steps are split where it touches what is  *)
(* shared or outside: the counter, the context, the transport.             *)
(***************************************************************************)
\* The method the callers name.
ClientMethod == "f"

\* Call, lines 35-37, and Notify, lines 48-50 (src/client.go: Call, lines
\* 36-37): the done channel and the Response are made and the worker is
\* started.  expired: the deadline of
\* ctx has passed already.
Invoke(c, kind, params, expired) ==
    /\ invocations[c].pc = "idle"
    /\ invocations' =
         [invocations EXCEPT ![c] =
            [IdleInvocation EXCEPT !.pc = "select", !.kind = kind,
                                   !.params = params, !.ctxDone = expired,
                                   !.expired = expired, !.w = "start"]]
    /\ UNCHANGED <<handler, svars, avars, next>>

\* The deadline of ctx passes while the caller waits.
CtxDone(c) ==
    /\ invocations[c].pc = "select"
    /\ ~invocations[c].ctxDone
    /\ invocations' = [invocations EXCEPT ![c].ctxDone = TRUE]
    /\ UNCHANGED <<handler, svars, avars, next>>

\* call, lines 76-81, and notify, lines 59-64: the params are encoded and
\* the request is built; call draws its id from the counter.
Start(c) ==
    LET inv == invocations[c]
        m == Marshal(inv.params)
        id == nextID(next)
    IN  /\ inv.w = "start"
        /\ IF m.err
           THEN /\ invocations' =
                     [invocations EXCEPT
                        ![c].werr = Errorf("marshaling params", "json: error calling MarshalJSON"),
                        ![c].w = "report"]
                /\ next' = next
           ELSE IF inv.kind # "Notify"
           THEN /\ invocations' =
                     [invocations EXCEPT
                        ![c].req = request(id.id, ClientMethod, m.j),
                        ![c].w = "send"]
                /\ next' = id.next
           ELSE /\ invocations' =
                     [invocations EXCEPT
                        ![c].req = notifyRequest(ClientMethod, m.j),
                        ![c].w = "send"]
                /\ next' = next
        /\ UNCHANGED <<handler, svars, avars>>

\* send, lines 98-110: the request is encoded and handed to httpClient.Do
\* with ctx.  Do gives up at once, sending nothing, when ctx is done.
Send(c) ==
    LET inv == invocations[c]
    IN  /\ inv.w = "send"
        /\ invocations' =
             IF inv.ctxDone
             THEN [invocations EXCEPT
                     ![c].werr = Errorf("sending request", DeadlineExceeded),
                     ![c].w = "report"]
             ELSE [invocations EXCEPT ![c].sent = bytes(inv.req), ![c].w = "inflight"]
        /\ UNCHANGED <<handler, svars, avars, next>>

\* Do returns the reply of the peer to the worker whose request it
\* answers (send, lines 110-114).  notify closes the body unread and
\* reports nil (lines 70-72).
Deliver_ToAnother(invs, c, body) ==
    LET o == IF \E x \in Callers \ {c} : invs[x].w = "inflight" /\ invs[x].kind = "Call"
             THEN CHOOSE x \in Callers \ {c} : invs[x].w = "inflight" /\ invs[x].kind = "Call"
             ELSE c
    IN  [invs EXCEPT
           ![o].body = body,
           ![o].handedLive = ~invs[o].ctxDone,
           ![o].w = IF invs[o].kind = "Call" THEN "decode" ELSE "report"]

Deliver(invs, c, body) ==
    [invs EXCEPT
       ![c].body = body,
       ![c].handedLive = ~invs[c].ctxDone,
       ![c].w = IF invs[c].kind # "Notify" THEN "decode" ELSE "report"]

TransportReply(c, body) ==
    /\ invocations[c].w = "inflight"
    /\ invocations' = [Deliver(invocations, c, body) EXCEPT ![c].answer = body]
    /\ UNCHANGED <<handler, svars, avars, next>>

\* Do returns an error (send, lines 110-113; call, lines 83-86; notify,
\* lines 66-69): the connection broke, or ctx was done while the request
\* was in flight.
TransportFail(c, cause) ==
    /\ invocations[c].w = "inflight"
    /\ cause = DeadlineExceeded => invocations[c].ctxDone
    /\ invocations' =
         [invocations EXCEPT
            ![c].werr = Errorf("sending request", cause),
            ![c].failed = (cause = ConnectionReset),
            ![c].w = "report"]
    /\ UNCHANGED <<handler, svars, avars, next>>

\* call, lines 89-94: the reply is decoded into the Response.
DecodeReply(c) ==
    LET inv == invocations[c]
        d == decodeResponseFromReader(inv.body, inv.resp)
    IN  /\ inv.w = "decode"
        /\ inv.kind = "Call"
        /\ invocations' =
             [invocations EXCEPT
                ![c].resp = d.resp,
                ![c].werr = IF d.err = NilError THEN NoErr
                            ELSE Errorf("reading response", d.err.message),
                ![c].w = "report"]
        /\ UNCHANGED <<handler, svars, avars, next>>

\* The cases of the select of Call and Notify (lines 38-43, 51-55) that
\* can proceed: ctx.Done() is closed, the worker is sending on done.
Select_OnlyDone(inv) == IF inv.w = "report" THEN {"done"} ELSE {}

Select(inv) ==
    (IF inv.ctxDone THEN {"ctx"} ELSE {}) \cup (IF inv.w = "report" THEN {"done"} ELSE {})

\* The select fires and Call or Notify returns; when several cases can
\* proceed, any of them may be the one.  Notify returns the error only.
Return(c) ==
    LET inv == invocations[c]
    IN  /\ inv.pc = "select"
        /\ \E case \in Select(inv) :
             invocations' =
               IF case = "ctx"
               THEN [invocations EXCEPT
                       ![c].pc = "returned",
                       ![c].out = [nilResp |-> TRUE, resp |-> ZeroResponse,
                                   err |-> Errorf("", DeadlineExceeded), by |-> "ctx"]]
               ELSE [invocations EXCEPT
                       ![c].pc = "returned",
                       ![c].w = "exit",
                       ![c].out = [nilResp |-> inv.kind # "Call",
                                   resp |-> IF inv.kind = "Call" THEN inv.resp
                                            ELSE ZeroResponse,
                                   err |-> inv.werr, by |-> "done"]]
        /\ UNCHANGED <<handler, svars, avars, next>>

NextClient ==
    \/ \E c \in Callers, kind \in {"Call", "Notify"}, params \in ClientParams,
          expired \in BOOLEAN : Invoke(c, kind, params, expired)
    \/ \E c \in Callers : CtxDone(c)
    \/ \E c \in Callers : Start(c)
    \/ \E c \in Callers : Send(c)
    \/ \E c \in Callers, body \in Replies : TransportReply(c, body)
    \/ \E c \in Callers, cause \in {ConnectionReset, DeadlineExceeded} :
          TransportFail(c, cause)
    \/ \E c \in Callers : DecodeReply(c)
    \/ \E c \in Callers : Return(c)

SpecClient == Init /\ [][NextClient]_vars

(***************************************************************************)
(* The Call of src/client.go, lines 35-116: the caller passes the reply    *)
(* target, the worker decodes the result into it and Call returns the      *)
(* error only.  Its worker draws its id, sends and receives as the one of  *)
(* part_006 does.                                                          *)
(***************************************************************************)
\* readResponse (src/message.go, lines 78-88): [err, resp].
readResponse(body) == decodeResponseFromReader(body, ZeroResponse)

\* call, lines 101-109: the reply is read; an error in it is what the
\* worker reports, as [op |-> "Error", cause |-> its message].
ReadReply(c) ==
    LET inv == invocations[c]
        d == readResponse(inv.body)
    IN  /\ inv.w = "decode"
        /\ inv.kind = "CallReply"
        /\ invocations' =
             IF d.err # NilError
             THEN [invocations EXCEPT
                     ![c].werr = Errorf("reading response", d.err.message),
                     ![c].w = "report"]
             ELSE IF Err(d.resp) # NilError
             THEN [invocations EXCEPT
                     ![c].resp = d.resp,
                     ![c].werr = Errorf("Error", Err(d.resp).message),
                     ![c].w = "report"]
             ELSE [invocations EXCEPT ![c].resp = d.resp, ![c].w = "unmarshal"]
        /\ UNCHANGED <<handler, svars, avars, next>>

\* call, lines 111-115: json.Unmarshal(res.Result, reply) writes the result
\* into the caller's target.
StoreReply(c) ==
    LET inv == invocations[c]
        u == Unmarshal(inv.resp.result, inv.reply.t)
    IN  /\ inv.w = "unmarshal"
        /\ invocations' =
             IF u.err
             THEN [invocations EXCEPT
                     ![c].werr = Errorf("unmarshaling result", "json: cannot unmarshal"),
                     ![c].w = "report"]
             ELSE [invocations EXCEPT
                     ![c].reply = u.v,
                     ![c].late = (inv.pc = "returned"),
                     ![c].w = "report"]
        /\ UNCHANGED <<handler, svars, avars, next>>

NextClientReply ==
    \/ \E c \in Callers, params \in ClientParams, expired \in BOOLEAN :
          Invoke(c, "CallReply", params, expired)
    \/ \E c \in Callers : CtxDone(c)
    \/ \E c \in Callers : Start(c)
    \/ \E c \in Callers : Send(c)
    \/ \E c \in Callers, body \in Replies : TransportReply(c, body)
    \/ \E c \in Callers, cause \in {ConnectionReset, DeadlineExceeded} :
          TransportFail(c, cause)
    \/ \E c \in Callers : ReadReply(c)
    \/ \E c \in Callers : StoreReply(c)
    \/ \E c \in Callers : Return(c)

SpecClientReply == Init /\ [][NextClientReply]_vars

(***************************************************************************)
(* Properties.  They are stated over the request as it was sent (r) and    *)
(* what was written back (rw), once ServeHTTP has returned (served).       *)
(***************************************************************************)
\* r is a POST whose body is a JSON object that decodes as an envelope.
ServedEnvelope ==
    /\ served
    /\ r.method = "POST"
    /\ r.body.syntax = "object"
    /\ r.body.jsonrpc.k \in {"absent", "null", "str"}
    /\ r.body.method.k \in {"absent", "null", "str"}

\* r names a method.
HasMethod == r.body.method.k = "str" /\ r.body.method.s # ""

\* r names a method that has a handler in the registry.
Registered == HasMethod /\ r.body.method.s \in Methods /\ handler[r.body.method.s] # NoHandler

\* The handler r names.
Target == handler[r.body.method.s].f

\* The id a response to r has to carry.
EchoID == IF r.body.id.k = "absent" THEN JNull ELSE r.body.id

\* Exactly one message was written: an error response with this code.
OneError(code) ==
    /\ Len(rw.msgs) = 1
    /\ rw.msgs[1].hasError
    /\ rw.msgs[1].error.code = code
    /\ rw.msgs[1].result = NoJSON

\* C1: a request without an id (a notification) that names a method never
\* produces response bytes, whatever becomes of it.
C1_NotificationSilent ==
    (ServedEnvelope /\ HasMethod /\ r.body.id.k = "absent")
        => (rw.msgs = <<>> /\ rw.text = "")

\* params is valid for the handler f: f takes no parameter, or params
\* decodes without error into a non-zero value of f's parameter type.
ValidParamsFor(f) ==
    \/ Len(f.in) = 1
    \/ /\ r.body.params.k \notin {"absent", "null"}
       /\ LET t == IF Kind(f.in[2]) = "ptr" THEN Elem(f.in[2]) ELSE f.in[2]
              u == Unmarshal(r.body.params, t)
          IN  ~u.err /\ u.v # Zero(t)

\* What f returns when it is called with the decoded params of r.
Returned(f) ==
    IF Len(f.in) = 1 THEN Call(f, GoNil)
    ELSE LET t == IF Kind(f.in[2]) = "ptr" THEN Elem(f.in[2]) ELSE f.in[2]
         IN  Call(f, Unmarshal(r.body.params, t).v)

\* C2: a request with id k (a number or a string) for a registered handler
\* f, with params valid for f, where f returns a nil error and an encodable
\* value, is answered by exactly one response with id k, the encoded value
\* as result and no error.
C2_RoundTrip ==
    (/\ ServedEnvelope /\ Registered
     /\ r.body.id.k \in {"num", "str"}
     /\ ValidParamsFor(Target)
     /\ Returned(Target).out1.kind = "nil"
     /\ ~Marshal(Returned(Target).out0).err)
        => (/\ Len(rw.msgs) = 1
            /\ rw.msgs[1].id = r.body.id
            /\ ~rw.msgs[1].hasError
            /\ rw.msgs[1].result = Marshal(Returned(Target).out0).j)

\* C3: a request for a method that is not registered is answered by an
\* error response with code -32601 and the request's id, whether the id is
\* a number, a string, null or absent, and whatever the params.
C3_UnknownMethod ==
    (/\ ServedEnvelope /\ HasMethod /\ ~Registered
     /\ r.body.id.k \in {"num", "str", "null", "absent"})
        => (OneError(CodeMethodNotFound) /\ rw.msgs[1].id = EchoID)

C5_MissingMethod ==
    (ServedEnvelope /\ r.body.method.k = "absent")
        => (OneError(CodeInvalidRequest) /\ rw.msgs[1].id = EchoID /\ calls = <<>>)

C5_Witness ==
    /\ ServedEnvelope /\ r.body.method.k = "absent"
    /\ r.body.id = JStr("a")
    /\ handler["f"] # NoHandler
    /\ OneError(CodeInvalidRequest) /\ rw.msgs[1].id = JStr("a")

\* An InvalidRequest (-32600) response was written.
AnsweredInvalidRequest ==
    \E i \in 1..Len(rw.msgs) :
        rw.msgs[i].hasError /\ rw.msgs[i].error.code = CodeInvalidRequest

\* C6: a request that names a method and whose id is a string, a number,
\* null or absent is never answered with InvalidRequest (-32600).
C6_ValidIDPasses ==
    (ServedEnvelope /\ HasMethod /\ r.body.id.k \in {"str", "num", "null", "absent"})
        => ~AnsweredInvalidRequest

\* C7: a request that names a method and whose id is a boolean, an object or
\* an array is answered with InvalidRequest (-32600), and no handler is
\* invoked.
C7_BadIDRejected ==
    (ServedEnvelope /\ HasMethod /\ r.body.id.k \in {"bool", "obj", "arr"})
        => (OneError(CodeInvalidRequest) /\ calls = <<>>)

\* The type the params of a request for f are decoded into.
ParamType(f) == IF Kind(f.in[2]) = "ptr" THEN Elem(f.in[2]) ELSE f.in[2]

\* C8: a request with an id for a handler that takes a parameter, whose
\* params are absent, null or do not decode into the parameter type, is
\* answered by an error response with code -32602 and the request's id, and
\* the handler is not invoked.
C8_InvalidParams ==
    (/\ ServedEnvelope /\ Registered /\ Len(Target.in) = 2
     /\ r.body.id.k \in {"num", "str"}
     /\ \/ r.body.params.k \in {"absent", "null"}
        \/ Unmarshal(r.body.params, ParamType(Target)).err)
        => (OneError(CodeInvalidParams) /\ rw.msgs[1].id = EchoID /\ calls = <<>>)

\* C9: a request for a handler that takes a parameter, whose params decode
\* without error to the zero value of the parameter type, is answered by an
\* error response with code -32602, and the handler is not invoked.  (Stated
\* for numeric ids.)
C9_ZeroParamsRejected ==
    (/\ ServedEnvelope /\ Registered /\ Len(Target.in) = 2
     /\ r.body.id.k = "num"
     /\ r.body.params.k \notin {"absent", "null"}
     /\ ~Unmarshal(r.body.params, ParamType(Target)).err
     /\ Unmarshal(r.body.params, ParamType(Target)).v = Zero(ParamType(Target)))
        => (OneError(CodeInvalidParams) /\ calls = <<>>)

\* C10: when the handler returns a non-nil error that is no structured
\* Error, the response is an error response with code -32000, the error's
\* text as message, no result, and the request's id.
C10_PlainError ==
    (served /\ calls # <<>> /\ Call(calls[1].f, calls[1].arg).out1.kind = "errorString")
        => (/\ OneError(CodeServerError)
            /\ rw.msgs[1].error.message = Call(calls[1].f, calls[1].arg).out1.message
            /\ rw.msgs[1].id = EchoID)

C10_Witness ==
    /\ served /\ calls # <<>>
    /\ calls[1].f.body = "error"
    /\ r.body.id = JNum(1)
    /\ OneError(CodeServerError)
    /\ rw.msgs[1].error.message = "something went wrong"

\* What the handler invoked for r returned.
Outv == Call(calls[1].f, calls[1].arg)

\* The handler invoked for r returned a structured Error.
ReturnedError == served /\ calls # <<>> /\ Outv.out1.kind = "Error"

C12_ReservedBand ==
    ReturnedError =>
        \A i \in 1..Len(rw.msgs) :
            rw.msgs[i].hasError => rw.msgs[i].error.code \notin -32768 .. -32000

\* C13: when the handler returns a nil error and a result that cannot be
\* encoded, the response is an error response with code -32603 and the
\* request's id, and no result.
C13_UnencodableResult ==
    (served /\ calls # <<>> /\ Outv.out1.kind = "nil" /\ Marshal(Outv.out0).err)
        => (OneError(CodeInternalError) /\ rw.msgs[1].id = EchoID)

C13_Witness ==
    /\ served /\ calls # <<>>
    /\ calls[1].f.out[1] = TBadStruct
    /\ r.body.id = JNum(1)
    /\ OneError(CodeInternalError)
    /\ rw.msgs[1].id = JNum(1)

\* A written message is a well-formed response: it carries the version tag
\* and exactly one of result and error.
WellFormed(msg) ==
    /\ msg.jsonrpc = JStr("2.0")
    /\ msg.hasError # (msg.result # NoJSON)

\* C14: every response the dispatcher writes carries the version tag "2.0"
\* and exactly one of result and error.
C14_VersionAndOneOf ==
    \A i \in 1..Len(rw.msgs) : WellFormed(rw.msgs[i])

C14_Witness ==
    /\ ServedEnvelope /\ Registered
    /\ r.body.jsonrpc.k = "absent"
    /\ calls # <<>>
    /\ Len(rw.msgs) = 1
    /\ ~rw.msgs[1].hasError
    /\ rw.msgs[1].result = JStr("string")
    /\ rw.msgs[1].jsonrpc = JStr("2.0")

\* C15: a POST request that carries an id is answered with exactly one
\* well-formed response, whatever path it takes.
C15_ExactlyOneResponse ==
    (served /\ r.method = "POST" /\ r.body.syntax = "object" /\ r.body.id.k # "absent")
        => (Len(rw.msgs) = 1 /\ WellFormed(rw.msgs[1]))

\* C16: a request whose HTTP method is not POST gets the not-found reply
\* (status 404) and nothing else: no response is written and no handler
\* is invoked.
C16_NotPost ==
    (served /\ r.method # "POST")
        => (/\ rw.status = StatusNotFound
            /\ rw.text = "Not found"
            /\ rw.msgs = <<>>
            /\ calls = <<>>)

C16_Witness ==
    /\ served /\ r.method = "GET"
    /\ r.body.syntax = "object" /\ r.body.method = JStr("f") /\ r.body.id = JNum(1)
    /\ handler["f"] # NoHandler /\ Len(handler["f"].f.in) = 2
    /\ rw.status = StatusNotFound

\* The type is exported or builtin, pointers looked through: of the types
\* handlers are declared with, all but the unexported struct.
ExportedOrBuiltin(t) == t[Len(t)] # TUnexported[1]

\* The registration rules h breaks, numbered in the order they are listed:
\* 1 not a function, 2 argument count, 3 first argument type, 4 second
\* argument type, 5 return count, 6 first return type, 7 second return type.
Violated(h) ==
    { i \in 1..7 :
        CASE i = 1 -> h.kind # "func"
          [] i = 2 -> h.kind = "func" /\ Len(h.in) \notin {1, 2}
          [] i = 3 -> Len(h.in) >= 1 /\ h.in[1] # typeOfContext
          [] i = 4 -> Len(h.in) >= 2 /\ ~ExportedOrBuiltin(h.in[2])
          [] i = 5 -> h.kind = "func" /\ Len(h.out) # 2
          [] i = 6 -> Len(h.out) >= 1 /\ ~ExportedOrBuiltin(h.out[1])
          [] i = 7 -> Len(h.out) >= 2 /\ h.out[2] # typeOfError }

\* The error HandleFunc returns for a handler whose first broken rule is i.
RuleError(i, h) ==
    "jsonrpc: " \o
    CASE i = 1 -> "invalid handler type: expected func, got " \o h.kind
      [] i = 2 -> "invalid number of args: expected 2, got " \o ToString(Len(h.in))
      [] i = 3 -> "invalid first arg type: expected context.Context, got " \o h.in[1][1]
      [] i = 4 -> "invalid second arg type: expected exported or builtin"
      [] i = 5 -> "invalid number of returns: expected 2, got " \o ToString(Len(h.out))
      [] i = 6 -> "invalid first return type: expected exported or builtin"
      [] i = 7 -> "invalid second return type: expected error, got " \o h.out[2][1]

\* C17: HandleFunc accepts a handler (returns nil and stores it) exactly when
\* it breaks none of the seven rules, and otherwise returns the error of
\* the first rule it breaks, in the listed order.
C17_HandleFuncRules ==
    ret # NoCall =>
        LET V == Violated(ret.h)
        IN  /\ ~ret.panic
            /\ ret.err = "" <=> V = {}
            /\ V = {} => handler[ret.method].f = ret.h
            /\ V # {} =>
                 ret.err = RuleError(CHOOSE i \in V : \A j \in V : i <= j, ret.h)

\* The positions in stores of the registrations of method m.
StoresOf(m) == {i \in 1..Len(stores) : registrars[stores[i]].method = m}

\* The handler of the last registration of m that was stored.
LastStored(m) ==
    registrars[stores[CHOOSE i \in StoresOf(m) : \A j \in StoresOf(m) : j <= i]].h

\* C18: a HandleFunc call for a name that is registered already succeeds
\* and overwrites the descriptor: the registry holds the handler stored
\* last, and a ServeHTTP call that starts after every registration returned
\* invokes that handler and no earlier one.
C18_LastRegistrationWins ==
    /\ \A g \in Registrars :
         registrars[g].pc = "done" =>
            /\ \E i \in 1..Len(stores) : stores[i] = g
            /\ handler[registrars[g].method].f = LastStored(registrars[g].method)
    /\ \A d \in Dispatchers :
         LET c == dispatches[d]
         IN  (c.pc = "done" /\ c.afterAll /\ c.calls # <<>>)
                => (/\ Len(c.calls) = 1
                    /\ StoresOf(c.r.body.method.s) # {}
                    /\ c.calls[1].f = LastStored(c.r.body.method.s))

C18_Witness ==
    /\ stores = <<"r1", "r2">>
    /\ registrars["r1"].method = "f" /\ registrars["r2"].method = "f"
    /\ registrars["r1"].h # registrars["r2"].h
    /\ registrars["r2"].pc = "done"
    /\ dispatches["d1"].pc = "done" /\ dispatches["d1"].afterAll
    /\ dispatches["d1"].calls # <<>>
    /\ dispatches["d1"].calls[1].f = registrars["r2"].h

\* Both goroutines have registered, each a method of its own, and both
\* ServeHTTP calls, made after that, each for a method and with an id of
\* its own, have returned.
AsyncRoundDone ==
    /\ \A g \in Registrars : registrars[g].pc = "done"
    /\ registrars["r1"].method # registrars["r2"].method
    /\ \A d \in Dispatchers : dispatches[d].pc = "done" /\ dispatches[d].afterAll
    /\ dispatches["d1"].r.body.method # dispatches["d2"].r.body.method
    /\ dispatches["d1"].r.body.id # dispatches["d2"].r.body.id

\* The result of a request with params p answered by handler h, as the
\* test cases give it: a "const" handler answers "string", an "echo"
\* handler its params.
ExpectedResult(h, p) == IF h.body = "const" THEN JStr("string") ELSE p

\* C19: after the methods were registered concurrently, concurrent
\* requests, each for its own method and with its own id, all succeed: each
\* gets one response, with its own id and the result of its own handler.
C19_NoCrossTalk ==
    AsyncRoundDone =>
        \A d \in Dispatchers :
            LET c == dispatches[d]
            IN  /\ Len(c.rw.msgs) = 1
                /\ ~c.rw.msgs[1].hasError
                /\ c.rw.msgs[1].id = c.r.body.id
                /\ c.rw.msgs[1].result =
                     ExpectedResult(LastStored(c.r.body.method.s), c.r.body.params)

\* The descriptor a registration of handler h has to store: the callable,
\* its parameter type when it takes one, its result type and its arity.
DescriptorOf(h) ==
    [f |-> h,
     ptype |-> IF Len(h.in) = 2 THEN h.in[2] ELSE NoType,
     rtype |-> h.out[1],
     numArgs |-> Len(h.in)]

\* C20: a lookup that runs while registrations are going on returns no
\* descriptor, or the complete descriptor that one registration stored
\* under that name: callable, parameter type, result type and arity of the
\* same handler.
C20_CompleteDescriptor ==
    \A d \in Dispatchers :
        LET c == dispatches[d]
        IN  c.pc \in {"loaded", "done"} =>
                \/ c.htype = NoHandler
                \/ \E i \in 1..Len(stores) :
                     /\ registrars[stores[i]].method = c.r.body.method.s
                     /\ c.htype = DescriptorOf(registrars[stores[i]].h)

C20_Witness ==
    /\ dispatches["d1"].pc = "loaded"
    /\ ~dispatches["d1"].afterAll
    /\ dispatches["d1"].htype # NoHandler
    /\ dispatches["d1"].htype.numArgs = 2
    /\ registrars["r2"].pc = "store"
    /\ registrars["r2"].method = dispatches["d1"].r.body.method.s
    /\ registrars["r2"].h # dispatches["d1"].htype.f

\* C21: a notification (no id) for a registered method, with params valid
\* for its handler, invokes that handler exactly once.
C21_NotificationInvokes ==
    (ServedEnvelope /\ Registered /\ r.body.id.k = "absent"
        /\ ValidParamsFor(Target))
        => (Len(calls) = 1 /\ calls[1].f = Target)

\* r is a well-formed Request: a method is present and the id is a
\* string, a number, null or absent.
WellFormedRequest ==
    /\ ServedEnvelope
    /\ HasMethod
    /\ r.body.id.k \in {"absent", "null", "str", "num"}

\* The params of r decode into the parameter type of f.
ParamsDecoded(f) ==
    \/ Len(f.in) = 1
    \/ /\ r.body.params.k # "absent"
       /\ ~Unmarshal(r.body.params,
                     IF Kind(f.in[2]) = "ptr" THEN Elem(f.in[2]) ELSE f.in[2]).err

\* C30: the handler is invoked at most once for a request, and only when
\* the envelope was parsed, the request is well formed, its method is
\* registered and its params decode for the handler; a request that fails
\* one of these stages is never invoked.
C30_InvokedAfterStages ==
    /\ Len(calls) <= 1
    /\ calls # <<>> =>
          /\ WellFormedRequest
          /\ Registered
          /\ calls[1].f = Target
          /\ ParamsDecoded(Target)

\* The invocations that are Calls whose worker drew an id.
Allocated == {c \in Callers : invocations[c].kind = "Call" /\ invocations[c].req.ID # GoNil}

\* C22: the id of every Call is drawn fresh from the counter: it is not
\* zero, it is at most the counter, it is what goes on the wire, and no two
\* Calls of the client, concurrent or not, have the same id.
C22_FreshIDs ==
    \A c \in Allocated :
        LET inv == invocations[c]
        IN  /\ inv.req.ID.n # 0
            /\ inv.req.ID.n \in 1..next
            /\ inv.sent # NoBytes => inv.sent.id = JNum(inv.req.ID.n)
            /\ \A d \in Allocated \ {c} : invocations[d].req.ID # inv.req.ID

C22_Witness ==
    /\ Allocated = Callers
    /\ \A c \in Callers : invocations[c].w = "inflight"
    /\ invocations["c1"].sent.id = JNum(2)
    /\ invocations["c2"].sent.id = JNum(1)

\* Call returned to c what its worker reported on done, without an error.
Resolved(c) ==
    /\ invocations[c].kind = "Call"
    /\ invocations[c].pc = "returned"
    /\ invocations[c].out.by = "done"
    /\ invocations[c].out.err = NoErr

\* C23: a Call that returns a response without an error returns one whose
\* id is the id of its request.
C23_IDMatches ==
    \A c \in Callers :
        Resolved(c) =>
            invocations[c].out.resp.id = GoVal(TFloat64, invocations[c].req.ID.n, "")

\* What Call and Notify return when ctx is the case that fired: no
\* Response and the error "jsonrpc: context deadline exceeded".
Cancelled(out) == out.nilResp /\ out.err = Errorf("", DeadlineExceeded)

\* C24: a Call with encodable params whose deadline has passed already
\* returns the cancellation outcome, in every interleaving.
C24_ExpiredIsCancelled ==
    \A c \in Callers :
        LET inv == invocations[c]
        IN  (inv.kind = "Call" /\ inv.expired /\ ~Marshal(inv.params).err
                /\ inv.pc = "returned")
                => Cancelled(inv.out)

\* C25: a Call or Notify that waits while ctx is done can return at once,
\* whatever its worker and the transport are doing, and returning leaves
\* the worker where it is; bytes that were sent stay sent.
C25_CancelReturnsAtOnce ==
    /\ [](\A c \in Callers :
            (invocations[c].pc = "select" /\ invocations[c].ctxDone)
                => ENABLED Return(c))
    /\ [][\A c \in Callers :
            /\ invocations[c].sent # NoBytes => invocations'[c].sent = invocations[c].sent
            /\ invocations'[c].out.by = "ctx" =>
                  /\ Cancelled(invocations'[c].out)
                  /\ invocations[c].pc = "select" => invocations'[c].w = invocations[c].w]_vars

C25_Witness ==
    /\ invocations["c1"].kind = "Call"
    /\ invocations["c1"].pc = "returned"
    /\ Cancelled(invocations["c1"].out)
    /\ ~invocations["c1"].expired
    /\ invocations["c1"].w = "inflight"
    /\ invocations["c1"].sent.id = JNum(1)
    /\ invocations["c2"].kind = "Notify"
    /\ invocations["c2"].pc = "returned"
    /\ Cancelled(invocations["c2"].out)
    /\ invocations["c2"].w = "inflight"

\* The reply handed to the worker of c is a response with an error object.
ErrorReply(c) ==
    /\ invocations[c].body.syntax = "object"
    /\ invocations[c].body.method = ""
    /\ invocations[c].body.error # NilError

\* The values a caller may pass to Response.Decode as its target.
Targets == {GoVal(TString, 0, "old"), GoVal(TInt, 1, "")}

C27_NotifyNoID ==
    /\ next = Cardinality(Allocated)
    /\ \A c \in Callers :
          LET inv == invocations[c]
          IN  inv.kind = "Notify" =>
                /\ inv.req.ID = GoNil
                /\ inv.sent # NoBytes => inv.sent.id = NoJSON
                /\ inv.resp = ZeroResponse
                /\ inv.body # NoReply => inv.werr = NoErr
                /\ (inv.pc = "returned" /\ inv.out.by = "done" /\ inv.body # NoReply)
                      => (inv.out.err = NoErr /\ inv.out.nilResp)

C27_Witness ==
    /\ invocations["c1"].kind = "Notify"
    /\ invocations["c1"].pc = "returned"
    /\ invocations["c1"].out.by = "done"
    /\ invocations["c1"].body = GarbageReply
    /\ invocations["c1"].out.err = NoErr
    /\ invocations["c2"].kind = "Call"
    /\ invocations["c2"].sent.id = JNum(1)
    /\ next = 1

\* C28: whatever the other goroutine does with the client, a Call that
\* returns a reply returns the one its peer gave to its own request,
\* decoded: its id, its result and its error.
C28_OwnReply ==
    \A c \in Callers :
        LET inv == invocations[c]
        IN  (inv.kind = "Call" /\ inv.pc = "returned" /\ inv.out.by = "done"
                /\ inv.sent # NoBytes /\ inv.out.err.op # "sending request")
                => /\ inv.answer # NoReply
                   /\ inv.out.resp = decodeResponseFromReader(inv.answer, ZeroResponse).resp
                   /\ (inv.out.err = NoErr) =
                          (decodeResponseFromReader(inv.answer, ZeroResponse).err = NilError)

C28_Witness ==
    /\ Resolved("c1")
    /\ Resolved("c2")
    /\ invocations["c1"].sent.id = JNum(2)
    /\ invocations["c2"].sent.id = JNum(1)
    /\ invocations["c1"].out.resp.id = GoVal(TFloat64, 2, "")
    /\ invocations["c1"].out.resp.result = JStr("string")
    /\ invocations["c2"].out.resp.id = GoVal(TFloat64, 1, "")
    /\ invocations["c2"].out.resp.error # NilError

\* C29: a Call whose reply the transport handed over while ctx was live
\* does not end by cancellation.
C29_NoLateCancellation ==
    \A c \in Callers :
        LET inv == invocations[c]
        IN  (inv.kind = "Call" /\ inv.handedLive /\ inv.pc = "returned")
                => ~Cancelled(inv.out)

\* The first defect of r, as the code of the error that reports it, in the
\* order: the body is no envelope; the request is not well formed (no
\* method, or an id that is no string, number or null); the method is not
\* registered; the params are absent, null or do not decode for a handler
\* that takes a parameter; the handler returns an error (a structured Error
\* keeps its code, any other is wrapped with -32000); the result cannot be
\* encoded.  0 when r has no defect.
FirstDefect ==
    IF ~(/\ r.body.syntax = "object"
         /\ r.body.jsonrpc.k \in {"absent", "null", "str"}
         /\ r.body.method.k \in {"absent", "null", "str"})
    THEN CodeParseError
    ELSE IF ~HasMethod \/ r.body.id.k \notin {"absent", "null", "str", "num"}
    THEN CodeInvalidRequest
    ELSE IF ~Registered THEN CodeMethodNotFound
    ELSE IF /\ Len(Target.in) = 2
            /\ \/ r.body.params.k \in {"absent", "null"}
               \/ Unmarshal(r.body.params, ParamType(Target)).err
    THEN CodeInvalidParams
    ELSE IF Returned(Target).out1.kind = "Error" THEN Returned(Target).out1.code
    ELSE IF Returned(Target).out1.kind # "nil" THEN CodeServerError
    ELSE IF Marshal(Returned(Target).out0).err THEN CodeInternalError
    ELSE 0

\* C31: a request with an id that has one or more defects is answered
\* with the error of the first of them, in the order parse error, invalid
\* request, method not found, invalid params, handler error, unencodable
\* result, and with no other response.
C31_FirstDefect ==
    (served /\ r.method = "POST" /\ r.body.id.k # "absent" /\ FirstDefect # 0)
        => /\ Len(rw.msgs) <= 1
           /\ \A i \in 1..Len(rw.msgs) :
                /\ rw.msgs[i].hasError
                /\ rw.msgs[i].error.code = FirstDefect
                /\ rw.msgs[i].result = NoJSON

\* An InvalidParams (-32602) response was written.
AnsweredInvalidParams ==
    \E i \in 1..Len(rw.msgs) :
        rw.msgs[i].hasError /\ rw.msgs[i].error.code = CodeInvalidParams

\* C32: a well-formed request with an id for a registered handler that
\* takes the context only invokes it once, without an argument, whatever
\* its params are, and is never answered with InvalidParams (-32602).
C32_ContextOnlyInvoked ==
    (/\ ServedEnvelope /\ Registered /\ Len(Target.in) = 1
     /\ r.body.id.k \in {"null", "str", "num"})
        => /\ Len(calls) = 1
           /\ calls[1] = [f |-> Target, arg |-> GoNil]
           /\ ~AnsweredInvalidParams

\* C33: a HandleFunc call that ends with an error leaves the registry as it
\* was, the entry of its method name included; the registry only ever
\* holds complete descriptors of handlers that passed inspectHandler, and
\* the handler a request invokes is the one the registry holds.
C33_RejectedNotStored ==
    /\ [](\A m \in Methods :
            \/ handler[m] = NoHandler
            \/ /\ inspectHandler(handler[m].f).err = ""
               /\ handler[m] = DescriptorOf(handler[m].f))
    /\ [](calls # <<>> => (Registered /\ calls[1].f = Target))
    /\ [][(ret = NoCall /\ ret' # NoCall /\ ret'.err # "") => handler' = handler]_vars

C33_Witness ==
    /\ ret # NoCall
    /\ ret.err = "jsonrpc: invalid number of args: expected 2, got 3"
    /\ handler[ret.method] # NoHandler
    /\ handler[ret.method].f # ret.h

\* C34: no step of an exchange (the request handed over, ServeHTTP, the
\* end of the exchange) changes the registry, whatever the outcome: every
\* method name keeps its descriptor, or stays without one.
C34_DispatchKeepsRegistry ==
    [][(r # NoHTTPRequest \/ r' # NoHTTPRequest) => handler' = handler]_vars

C34_Witness ==
    /\ served
    /\ calls # <<>>
    /\ OneError(CodeServerError)
    /\ handler["f"] # NoHandler
    /\ handler["g"] # NoHandler
    /\ handler["f"] # handler["g"]

\* The reply the peer gave to c is an object without a result, an error or
\* a method.
EmptyReply(c) ==
    /\ invocations[c].answer.syntax = "object"
    /\ invocations[c].answer.method = ""
    /\ invocations[c].answer.result = NoJSON
    /\ invocations[c].answer.error = NilError

\* C35: a Call whose reply has neither a result nor an error (and no
\* method) does not return it as a response: it returns the error
\* "jsonrpc: reading response: invalid decoded message".
C35_EmptyReplyRejected ==
    \A c \in Callers :
        LET inv == invocations[c]
        IN  (inv.kind = "Call" /\ inv.pc = "returned" /\ inv.out.by = "done"
                /\ EmptyReply(c))
                => inv.out.err = Errorf("reading response", errInvalidDecodedMessage.message)

\* C36: no worker is left where it cannot terminate: a worker that has its
\* outcome to send on done has a caller that has not returned and can
\* receive it.
C36_WorkersTerminate ==
    \A c \in Callers :
        invocations[c].w = "report" => invocations[c].pc = "select"

\* C37: once Call has returned the cancellation error, its worker does not
\* write to the reply target the caller passed.
C37_NoLateWrite ==
    \A c \in Callers :
        (invocations[c].pc = "returned" /\ Cancelled(invocations[c].out))
            => ~invocations[c].late

\* What ServeHTTP does with r when its version tag is set to "2.0".
ServedAsTagged == Serve(handler, [r EXCEPT !.body.jsonrpc = JStr("2.0")])

\* C38: a request whose jsonrpc member is absent or a string other than
\* "2.0" is served as the same request tagged "2.0" is: the same handler
\* invocations and the same responses; and every response is tagged "2.0".
C38_VersionNotChecked ==
    (served /\ r.method = "POST" /\ r.body.syntax = "object"
        /\ r.body.jsonrpc.k \in {"absent", "str"})
        => /\ rw = ServedAsTagged.rw
           /\ calls = ServedAsTagged.calls
           /\ \A i \in 1..Len(rw.msgs) : rw.msgs[i].jsonrpc = JStr("2.0")

C38_Witness ==
    /\ served
    /\ r.body.jsonrpc = JStr("1.0")
    /\ r.body.id = JNum(0)
    /\ Len(calls) = 1
    /\ Len(rw.msgs) = 1
    /\ rw.msgs[1].jsonrpc = JStr("2.0")
    /\ rw.msgs[1].result = JStr("input")
    /\ rw.msgs[1].id = JNum(0)

====
